---- MODULE Spec2Model ----
(***************************************************************************)
(* Histogram Confidence Method (src/hcm.py): a streaming drift detector.   *)
(*                                                                         *)
(* Encoding of floats.  Observations and baseline samples are integer      *)
(* codes that keep the order of the floats they stand for.  Baseline       *)
(* samples are the codes 0 and 2; observations are the codes -2, -1, 0, 2. *)
(* One code step below 0 stands for "0.0 - 1e-9".  Code 2 stands for a     *)
(* float of large magnitude (such as 1e8), where subtracting 1e-9 is       *)
(* absorbed by rounding: 1e8 - 1e-9 == 1e8 in binary64.                    *)
(*                                                                         *)
(* Python lists are sequences; a Python index i is position i+1.           *)
(***************************************************************************)
EXTENDS Integers, Sequences, FiniteSets, TLC

\* ------------------------------------------------------------ bounds ----
MaxN == 5
MaxW == 3
MaxMinPerBin == 3
MaxBins == 2
MaxCalls == 4

DataVals == {0, 2}
XVals == {0 - 2, 0 - 1, 0, 2}
Baselines == UNION {[1..len -> DataVals] : len \in 0..MaxN}

\* confidence levels in thousandths: 0.95 and 0.99; 0.0 and 1.5 lie
\* outside (0,1)
ValidConfidences == {950, 990}
AnyConfidences == {0, 990, 1500}

ValidConfigs ==
    [window_size : 1..MaxW, min_per_bin : 1..MaxMinPerBin,
     max_bins : 1..MaxBins, confidence : ValidConfidences]
AnyConfigs ==
    [window_size : (0 - 1)..MaxW, min_per_bin : 0..MaxMinPerBin,
     max_bins : 0..MaxBins, confidence : AnyConfidences]

IsValidConfig(cfg) ==
    /\ cfg.window_size > 0
    /\ cfg.min_per_bin > 0
    /\ cfg.max_bins > 0
    /\ cfg.confidence > 0
    /\ cfg.confidence < 1000

\* ------------------------------------------------------------- state ----
VARIABLES
    status,          \* "none" before construction, "ok", or "error"
    err,             \* the exception construction raised, "none" otherwise
    args,            \* the arguments the constructor was called with
    data,            \* sorted baseline (local of __init__, kept for reference)
    w, min_per_bin, max_bins, confidence,
    edges, bin_counts, K, N, L, U,
    buffer, current_counts, drift,
    op,              \* the last operation called
    ret,             \* what it returned (or the exception it raised)
    last_update,     \* return value of the latest update since construction/reset
    n,               \* update calls since construction/reset
    pre              \* <<len(buffer), drift>> before the last operation

config == <<w, min_per_bin, max_bins, confidence>>
built == <<edges, bin_counts, K, N, L, U>>
runtime == <<buffer, current_counts, drift>>
history == <<op, ret, last_update, n, pre>>
vars == <<status, err, args, data, config, built, runtime, history>>

\* ----------------------------------------------------------- helpers ----
Min(a, b) == IF a < b THEN a ELSE b

RECURSIVE SumSeq(_)
SumSeq(s) == IF s = <<>> THEN 0 ELSE Head(s) + SumSeq(Tail(s))

Zeros(k) == [j \in 1..k |-> 0]

\* s[i] of a Python list, negative i counting from the end
PyInRange(s, i) == i >= 0 - Len(s) /\ i < Len(s)
PyAt(s, i) == IF i < 0 THEN s[Len(s) + i + 1] ELSE s[i + 1]
PySet(s, i, v) ==
    IF i < 0 THEN [s EXCEPT ![Len(s) + i + 1] = v] ELSE [s EXCEPT ![i + 1] = v]

\* sorted(baseline_data)
RECURSIVE Insert(_, _)
Insert(v, s) ==
    IF s = <<>> THEN <<v>>
    ELSE IF v <= Head(s) THEN <<v>> \o s
    ELSE <<Head(s)>> \o Insert(v, Tail(s))

RECURSIVE sorted(_)
sorted(s) == IF s = <<>> THEN <<>> ELSE Insert(Head(s), sorted(Tail(s)))

\* v - 1e-9 in binary64
SubEps(v) == IF v >= 2 THEN v ELSE v - 1

\* ----------------------------------------- Adaptive Histogram Builder ----
\* variant: the chunk is one sample short
ChunkEnd_short(len, i, mpb) == Min(len, i + mpb - 1)

\* i = min(n, i + self.min_per_bin)
ChunkEnd(len, i, mpb) == Min(len, i + mpb)

\* i == n and counts and (i - start) < self.min_per_bin * 0.5
MergeIntoPrevious(len, start, i, counts, mpb) ==
    /\ i = len
    /\ counts # <<>>
    /\ 2 * (i - start) < mpb

\* the while loop of _build_adaptive_histogram; yields <<edges, counts>>
RECURSIVE BuildLoop(_, _, _, _, _, _)
BuildLoop(d, i, e, c, mpb, maxb) ==
    IF ~(i < Len(d) /\ Len(c) < maxb) THEN <<e, c>>
    ELSE LET start == i
             i2 == ChunkEnd(Len(d), i, mpb)
         IN  IF MergeIntoPrevious(Len(d), start, i2, c, mpb)
             THEN BuildLoop(d, i2,
                            PySet(e, 0 - 1, PyAt(d, i2 - 1)),
                            PySet(c, 0 - 1, PyAt(c, 0 - 1) + (i2 - start)),
                            mpb, maxb)
             ELSE BuildLoop(d, i2,
                            Append(e, PyAt(d, i2 - 1)),
                            Append(c, i2 - start),
                            mpb, maxb)

\* needs d non-empty (data[0] raises IndexError otherwise)
_build_adaptive_histogram(d, mpb, maxb) ==
    LET r == BuildLoop(d, 0, <<>>, <<>>, mpb, maxb)
        left_edge == SubEps(d[1])
    IN  [edges |-> <<left_edge>> \o r[1], counts |-> r[2]]

\* ------------------------------------------------ Envelope Calculator ----
\* z as a fraction: 1.96 = 49/25, 2.576 = 322/125; math has no erfcinv, so
\* every other confidence takes the except branch, z = 2.576
ZNum(conf) == IF conf = 950 THEN 49 ELSE 322
ZDen(conf) == IF conf = 950 THEN 25 ELSE 125

\* variant: var = w * p_i, the factor (1 - p_i) is missing
VarNum_no_complement(c, total, win) == win * c * total

\* N*N*var for p_i = c/N:  var = w * p_i * (1 - p_i)
VarNum(c, total, win) == win * c * (total - c)

\* k <= mu - z*sigma, with sigma = sqrt(max(var, 1e-9))
AtMostLower(k, c, total, win, conf) ==
    LET gap == win * c - k * total
        D == VarNum(c, total, win)
    IN  IF D > 0
        THEN gap >= 0 /\ ZNum(conf) * ZNum(conf) * D
                           <= ZDen(conf) * ZDen(conf) * gap * gap
        ELSE gap > 0

\* k >= mu + z*sigma
AtLeastUpper(k, c, total, win, conf) ==
    LET gap == k * total - win * c
        D == VarNum(c, total, win)
    IN  IF D > 0
        THEN gap >= 0 /\ ZDen(conf) * ZDen(conf) * gap * gap
                           >= ZNum(conf) * ZNum(conf) * D
        ELSE gap > 0

\* int(math.floor(max(0.0, mu - z * sigma)))
LowerBound(c, total, win, conf) ==
    LET S == {k \in 0..win : AtMostLower(k, c, total, win, conf)}
    IN  IF S = {} THEN 0 ELSE CHOOSE k \in S : \A j \in S : j <= k

\* variant: the upper bound is not capped at w
UpperBound_uncapped(c, total, win, conf) ==
    LET S == {k \in 0..(3 * win + 3) : AtLeastUpper(k, c, total, win, conf)}
    IN  CHOOSE k \in S : \A j \in S : k <= j

\* int(math.ceil(min(self.w, mu + z * sigma)))
UpperBound(c, total, win, conf) ==
    LET S == {k \in 0..win : k = win \/ AtLeastUpper(k, c, total, win, conf)}
    IN  IF win < 0 THEN win ELSE CHOOSE k \in S : \A j \in S : k <= j

\* yields <<L, U>>
_compute_count_bounds(counts, total, win, conf) ==
    LET empty(c) == c = 0 \/ win * c = 0
    IN  << [j \in 1..Len(counts) |->
              IF empty(counts[j]) THEN 0
              ELSE LowerBound(counts[j], total, win, conf)],
           [j \in 1..Len(counts) |->
              IF empty(counts[j]) THEN 0
              ELSE UpperBound(counts[j], total, win, conf)] >>

\* -------------------------------------------------------- Bin Locator ----
\* bisect.bisect_right(a, x): binary search, lo = 0, hi = len(a)
RECURSIVE BisectLoop(_, _, _, _)
BisectLoop(a, x, lo, hi) ==
    IF lo < hi
    THEN LET mid == (lo + hi) \div 2
         IN  IF x < a[mid + 1] THEN BisectLoop(a, x, lo, mid)
                               ELSE BisectLoop(a, x, mid + 1, hi)
    ELSE lo

bisect_right(a, x) == BisectLoop(a, x, 0, Len(a))

\* variant: the upper clamp is missing
Clamp_lower_only(idx, k) == IF idx < 0 THEN 0 ELSE idx

\* if idx < 0: idx = 0 / elif idx >= self.K: idx = self.K - 1
Clamp(idx, k) == IF idx < 0 THEN 0 ELSE IF idx >= k THEN k - 1 ELSE idx

BinIndexOf(e, k, x) == Clamp(bisect_right(e, x) - 1, k)

_bin_index(x) == BinIndexOf(edges, K, x)

\* -------------------------------------------------------- construction ----
Init ==
    /\ status = "none" /\ err = "none"
    /\ args = [window_size |-> 0, min_per_bin |-> 0, max_bins |-> 0,
               confidence |-> 0]
    /\ data = <<>>
    /\ w = 0 /\ min_per_bin = 0 /\ max_bins = 0 /\ confidence = 0
    /\ edges = <<>> /\ bin_counts = <<>> /\ K = 0 /\ N = 0
    /\ L = <<>> /\ U = <<>>
    /\ buffer = <<>> /\ current_counts = <<>> /\ drift = FALSE
    /\ op = "none" /\ ret = "none" /\ last_update = "none"
    /\ n = 0 /\ pre = <<0, FALSE>>

\* variant: the comparison admits equality
InsufficientBaseline_inclusive(d, mpb) == Len(d) <= mpb

\* if len(data) < min_per_bin: raise ValueError(...)
InsufficientBaseline(d, mpb) == Len(d) < mpb

\* how far __init__ gets: the exception it raises, or "none"
ConstructionError(d, cfg) ==
    IF InsufficientBaseline(d, cfg.min_per_bin)
    THEN "ValueError: Not enough baseline data"
    ELSE IF d = <<>>
    THEN "IndexError: data[0]"
    ELSE IF cfg.window_size < 0
    THEN "ValueError: maxlen must be non-negative"
    ELSE "none"

HCM(baseline_data, cfg) ==
    LET d == sorted(baseline_data)
        raised == ConstructionError(d, cfg)
        h == _build_adaptive_histogram(d, cfg.min_per_bin, cfg.max_bins)
        b == _compute_count_bounds(h.counts, Len(d), cfg.window_size,
                                   cfg.confidence)
    IN  /\ status' = IF raised = "none" THEN "ok" ELSE "error"
        /\ err' = raised
        /\ args' = cfg
        /\ data' = d
        /\ IF raised = "ValueError: Not enough baseline data"
           THEN UNCHANGED <<config, built, runtime>>
           ELSE /\ w' = cfg.window_size
                /\ min_per_bin' = cfg.min_per_bin
                /\ max_bins' = cfg.max_bins
                /\ confidence' = cfg.confidence
                /\ IF raised = "IndexError: data[0]"
                   THEN UNCHANGED <<built, runtime>>
                   ELSE /\ edges' = h.edges
                        /\ bin_counts' = h.counts
                        /\ K' = Len(h.counts)
                        /\ N' = Len(d)
                        /\ L' = b[1]
                        /\ U' = b[2]
                        /\ IF raised = "none"
                           THEN /\ buffer' = <<>>
                                /\ current_counts' = Zeros(Len(h.counts))
                                /\ drift' = FALSE
                           ELSE UNCHANGED runtime
        /\ op' = "new" /\ ret' = "none" /\ last_update' = "none"
        /\ n' = 0 /\ pre' = <<0, FALSE>>

\* construction within the documented interface
New ==
    /\ status = "none"
    /\ \E baseline_data \in Baselines, cfg \in ValidConfigs :
           HCM(baseline_data, cfg)

\* construction with any arguments
NewAny ==
    /\ status = "none"
    /\ \E baseline_data \in Baselines, cfg \in AnyConfigs :
           HCM(baseline_data, cfg)

\* ------------------------------------------------------------ runtime ----
BoolStr(b) == IF b THEN "True" ELSE "False"

\* variant: the window is never found full, so nothing is evicted by update
WindowFull_never(buf) == Len(buf) > w

\* if len(self.buffer) == self.w
WindowFull(buf) == Len(buf) = w

\* variant: the comparison is reversed
StillFilling_reversed(buf) == Len(buf) > w

\* if len(self.buffer) < self.w
StillFilling(buf) == Len(buf) < w

\* variant: the new value enters at the old end (appendleft)
DequeAppend_front(buf, x) ==
    IF w = 0 THEN buf
    ELSE IF Len(buf) = w THEN <<x>> \o SubSeq(buf, 1, w - 1)
    ELSE <<x>> \o buf

\* deque(maxlen=w).append(x)
DequeAppend(buf, x) ==
    IF w = 0 THEN buf
    ELSE IF Len(buf) = w THEN Append(Tail(buf), x)
    ELSE Append(buf, x)

\* variant: a count on a bound is taken for a violation
drift_now_inclusive(counts) ==
    \E i \in 0..(K - 1) :
        PyAt(counts, i) <= PyAt(L, i) \/ PyAt(counts, i) >= PyAt(U, i)

\* variant: only the lower bound is compared
drift_now_lower_only(counts) ==
    \E i \in 0..(K - 1) : PyAt(counts, i) < PyAt(L, i)

\* the loop over range(self.K): some bin outside [L[i], U[i]]
drift_now(counts) ==
    \E i \in 0..(K - 1) :
        PyAt(counts, i) < PyAt(L, i) \/ PyAt(counts, i) > PyAt(U, i)

\* old_idx and idx are bound to their values before the remaining steps run
update(x) ==
    /\ status = "ok"
    /\ n < MaxCalls
    /\ \E old_idx \in {IF WindowFull(buffer) /\ buffer # <<>>
                       THEN _bin_index(Head(buffer)) ELSE 0},
          idx \in {_bin_index(x)} :
          LET full == WindowFull(buffer)
              pop_fails == full /\ buffer = <<>>
              buf1 == IF full THEN Tail(buffer) ELSE buffer
              dec_fails == full /\ ~PyInRange(current_counts, old_idx)
              cnt1 == IF full
                      THEN PySet(current_counts, old_idx,
                                 PyAt(current_counts, old_idx) - 1)
                      ELSE current_counts
              buf2 == DequeAppend(buf1, x)
              inc_fails == ~PyInRange(cnt1, idx)
              cnt2 == PySet(cnt1, idx, PyAt(cnt1, idx) + 1)
              d_now == drift_now(cnt2)
          IN  IF pop_fails
              THEN /\ UNCHANGED runtime
                   /\ ret' = "IndexError"
              ELSE IF dec_fails
              THEN /\ buffer' = buf1
                   /\ UNCHANGED <<current_counts, drift>>
                   /\ ret' = "IndexError"
              ELSE IF inc_fails
              THEN /\ buffer' = buf2
                   /\ current_counts' = cnt1
                   /\ UNCHANGED drift
                   /\ ret' = "IndexError"
              ELSE /\ buffer' = buf2
                   /\ current_counts' = cnt2
                   /\ drift' = IF StillFilling(buf2) THEN FALSE ELSE d_now
                   /\ ret' = IF StillFilling(buf2) THEN "True"
                             ELSE BoolStr(~d_now)
    /\ last_update' = ret'
    /\ op' = "update"
    /\ n' = n + 1
    /\ pre' = <<Len(buffer), drift>>
    /\ UNCHANGED <<status, err, args, data, config, built>>

Update == \E x \in XVals : update(x)

is_drift ==
    /\ status = "ok"
    /\ op' = "is_drift"
    /\ ret' = BoolStr(drift)
    /\ pre' = <<Len(buffer), drift>>
    /\ UNCHANGED <<status, err, args, data, config, built, runtime,
                   last_update, n>>

\* variant: the drift flag survives
reset_keeps_drift ==
    /\ status = "ok"
    /\ buffer' = <<>>
    /\ current_counts' = Zeros(K)
    /\ UNCHANGED drift
    /\ op' = "reset"
    /\ ret' = "none"
    /\ last_update' = "none"
    /\ n' = 0
    /\ pre' = <<Len(buffer), drift>>
    /\ UNCHANGED <<status, err, args, data, config, built>>

\* variant: the occupancy counts survive
reset_keeps_counts ==
    /\ status = "ok"
    /\ buffer' = <<>>
    /\ UNCHANGED current_counts
    /\ drift' = FALSE
    /\ op' = "reset"
    /\ ret' = "none"
    /\ last_update' = "none"
    /\ n' = 0
    /\ pre' = <<Len(buffer), drift>>
    /\ UNCHANGED <<status, err, args, data, config, built>>

reset ==
    /\ status = "ok"
    /\ buffer' = <<>>
    /\ current_counts' = Zeros(K)
    /\ drift' = FALSE
    /\ op' = "reset"
    /\ ret' = "none"
    /\ last_update' = "none"
    /\ n' = 0
    /\ pre' = <<Len(buffer), drift>>
    /\ UNCHANGED <<status, err, args, data, config, built>>

\* construction alone, with arguments inside and outside the documented
\* interface and both tabulated confidence levels
ProbeConfigs ==
    [window_size : (0 - 1)..MaxW, min_per_bin : 0..MaxMinPerBin,
     max_bins : 0..MaxBins, confidence : ValidConfidences \cup AnyConfidences]

NewProbe ==
    /\ status = "none"
    /\ \E baseline_data \in Baselines, cfg \in ProbeConfigs :
           HCM(baseline_data, cfg)

NextNew == NewProbe
SpecNew == Init /\ [][NextNew]_vars

\* number of occurrences of v in the sequence s
Count(v, s) == Cardinality({j \in 1..Len(s) : s[j] = v})

\* a detector whose window is as long as its baseline, with room for every
\* bin the builder may want (max_bins is never the reason the loop stops)
MatchedBaselines == {b \in Baselines : Len(b) >= 1 /\ Len(b) <= MaxCalls}

NewMatched ==
    /\ status = "none"
    /\ \E baseline_data \in MatchedBaselines,
          mpb \in 1..MaxMinPerBin, conf \in ValidConfidences :
           HCM(baseline_data,
               [window_size |-> Len(baseline_data), min_per_bin |-> mpb,
                max_bins |-> Len(baseline_data), confidence |-> conf])

\* update(x) for a baseline sample x that has not been fed yet
FeedBaseline ==
    \E x \in DataVals :
        /\ Count(x, buffer) < Count(x, data)
        /\ update(x)

NextMatched == NewMatched \/ FeedBaseline
SpecMatched == Init /\ [][NextMatched]_vars

Next == New \/ Update \/ is_drift \/ reset
Spec == Init /\ [][Next]_vars

NextAny == NewAny \/ Update \/ is_drift \/ reset
SpecAny == Init /\ [][NextAny]_vars

\* baseline probabilities p_i = c / N, as <<numerator, denominator>>
p == [i \in 1..K |-> <<bin_counts[i], N>>]

\* ------------------------------------------------------------- claims ----
NotEnough == "ValueError: Not enough baseline data"

\* some bin i with current_counts[i] < L_i or current_counts[i] > U_i
OutsideEnvelope ==
    \E i \in 1..K : current_counts[i] < L[i] \/ current_counts[i] > U[i]

\* C1: an update that leaves the window holding exactly w observations
\* returns false and sets the drift flag iff some bin count, after the
\* eviction and the insertion, lies outside [L_i, U_i]; otherwise it returns
\* true and clears the flag.
C1_MonitoringReportsEnvelope ==
    (status = "ok" /\ op = "update" /\ Len(buffer) = w) =>
        /\ OutsideEnvelope => (ret = "False" /\ drift)
        /\ ~OutsideEnvelope => (ret = "True" /\ ~drift)

\* a full window after an eviction, with a bin above its upper bound
C1_Witness ==
    /\ status = "ok" /\ op = "update" /\ Len(buffer) = w /\ n > w
    /\ \E i \in 1..K : current_counts[i] > U[i]
    /\ ret = "False" /\ drift

\* C2: each of the first w-1 updates after construction or a reset returns
\* true and leaves the drift flag false, whatever the bin counts are.
C2_FillingNeverDrifts ==
    (status = "ok" /\ op = "update" /\ n < w) => (ret = "True" /\ ~drift)

\* during filling, after a reset, with a bin count outside its envelope
C2_Witness ==
    /\ status = "ok" /\ op = "update" /\ n >= 1 /\ n < w
    /\ OutsideEnvelope
    /\ ret = "True" /\ ~drift

\* C3: from the w-th update since construction or the last reset on,
\* sum(current_counts) == w after every update, until the next reset.
C3_OccupancyConserved ==
    (status = "ok" /\ n >= w) => SumSeq(current_counts) = w

\* one update past the fill: an eviction and an insertion have happened
C3_Witness ==
    /\ status = "ok" /\ op = "update" /\ n = w + 1
    /\ SumSeq(current_counts) = w
    /\ K >= 2

\* C4: is_drift() returns the negation of what the latest update since
\* construction or the last reset returned, false if there was none, and
\* changes nothing of the detector.
C4_IsDriftReportsLatestUpdate ==
    [][op' = "is_drift" =>
          /\ ret' = (IF last_update = "False" THEN "True" ELSE "False")
          /\ last_update \in {"none", "True", "False"}
          /\ UNCHANGED <<config, built, runtime, last_update, n>>]_vars

\* is_drift() answers True after an update that returned False
C4_Witness ==
    status = "ok" /\ op = "is_drift" /\ ret = "True" /\ last_update = "False"

\* the state right after construction: empty window, zero counts, no drift
EmptyFilling ==
    /\ buffer = <<>>
    /\ Len(current_counts) = K
    /\ \A i \in 1..K : current_counts[i] = 0
    /\ drift = FALSE

\* C5: reset() leaves the detector in the empty Filling state, the state
\* construction leaves it in, and leaves edges, baseline counts, p, L, U, K
\* and w unchanged; a second reset changes nothing.
C5_ResetRestoresEmptyFilling ==
    /\ []((status = "ok" /\ op \in {"new", "reset"}) => EmptyFilling)
    /\ [][op' = "reset" =>
            /\ UNCHANGED <<config, built>>
            /\ p' = p
            /\ (op = "reset" => UNCHANGED runtime)]_vars

\* a reset that found a full, drifting window
C5_Witness ==
    status = "ok" /\ op = "reset" /\ w >= 2 /\ pre = <<w, TRUE>> /\ EmptyFilling

\* C6: no detector with non-positive window_size, min_per_bin or max_bins,
\* or confidence outside (0,1), ever exists to receive a call.
C6_InvalidConfigNeverServes ==
    op \in {"update", "is_drift", "reset"} => IsValidConfig(args)

\* C7: construction raises the insufficient-baseline error exactly when
\* N < min_per_bin, before anything of the detector is built; with
\* N >= min_per_bin and valid configuration it succeeds.
C7_InsufficientBaselineExactly ==
    status # "none" =>
        /\ (err = NotEnough) <=> (Len(data) < args.min_per_bin)
        /\ (err = NotEnough) =>
              /\ status = "error"
              /\ config = <<0, 0, 0, 0>>
              /\ built = <<<<>>, <<>>, 0, 0, <<>>, <<>>>>
              /\ runtime = <<<<>>, <<>>, FALSE>>
        /\ (Len(data) >= args.min_per_bin) =>
              /\ status = "ok" /\ err = "none"
              /\ K >= 1 /\ Len(edges) = K + 1

\* rejected with one sample short of min_per_bin
C7_Witness ==
    /\ status = "error" /\ err = NotEnough
    /\ Len(data) >= 1 /\ Len(data) = args.min_per_bin - 1

\* observations probed against the edges: every code in and around the data
ProbeVals == (0 - 3)..3

\* C8: the Bin Locator returns an index in 0..K-1: 0 below edges[0], K-1 at
\* or above edges[K-1], and otherwise the unique i with
\* edges[i] <= x < edges[i+1], also when consecutive edges are equal.
C8_BinLocatorClamped ==
    status = "ok" =>
        \A x \in ProbeVals :
            LET i == _bin_index(x)
            IN  /\ i \in 0..(K - 1)
                /\ x < PyAt(edges, 0) => i = 0
                /\ x >= PyAt(edges, K - 1) => i = K - 1
                /\ (x >= PyAt(edges, 0) /\ x < PyAt(edges, K - 1)) =>
                      \A j \in 0..(K - 1) :
                          (PyAt(edges, j) <= x /\ x < PyAt(edges, j + 1))
                              <=> j = i

\* two bins with equal interior and last edge; probes below, inside and above
C8_Witness ==
    /\ status = "ok" /\ K = 2
    /\ PyAt(edges, 1) = PyAt(edges, 2)
    /\ \E x \in ProbeVals : x < PyAt(edges, 0)
    /\ \E x \in ProbeVals : x >= PyAt(edges, 0) /\ x < PyAt(edges, 1)
    /\ \E x \in ProbeVals : x > PyAt(edges, 2)

\* C9: the per-bin baseline counts sum to N, also when max_bins is reached
\* before the data is exhausted.
C9_BaselineCountsSumToN ==
    status = "ok" => SumSeq(bin_counts) = N

\* C10: every bin the builder emits, the trailing one included, has baseline
\* count >= min_per_bin.
C10_EveryBinHoldsMinPerBin ==
    status = "ok" => \A i \in 1..K : bin_counts[i] >= min_per_bin


\* C11: every bin other than the last has baseline count >= min_per_bin.
C11_OnlyLastBinMayBeShort ==
    status = "ok" => \A i \in 1..(K - 1) : bin_counts[i] >= min_per_bin

\* two bins, the trailing one short of min_per_bin
C11_Witness ==
    /\ status = "ok" /\ K >= 2
    /\ bin_counts[K] < min_per_bin
    /\ bin_counts[1] >= min_per_bin


\* C12: 1 <= K <= max_bins, the edge sequence has length K+1 and is
\* non-decreasing, and its first edge is strictly below the minimum
\* baseline sample.
C12_EdgesWellFormed ==
    status = "ok" =>
        /\ K >= 1 /\ K <= max_bins
        /\ Len(edges) = K + 1
        /\ \A i \in 1..K : edges[i] <= edges[i + 1]
        /\ edges[1] < data[1]

\* C13: 0 <= L_i <= U_i <= w for every bin.
C13_EnvelopeWithinWindow ==
    status = "ok" =>
        \A i \in 1..K : 0 <= L[i] /\ L[i] <= U[i] /\ U[i] <= w

\* a bin with a positive lower bound and an upper bound of w
C13_Witness ==
    /\ status = "ok" /\ w >= 2
    /\ \E i \in 1..K : L[i] >= 1 /\ U[i] = w


\* z * z as a fraction <<numerator, denominator>>: 1.96^2 = 3.8416 and
\* 2.576^2 = 6.635776
ZSquared == IF confidence = 950 THEN <<2401, 625>> ELSE <<103684, 15625>>

\* k <= mu_i - z * sigma_i for the bin with baseline count c, in exact
\* arithmetic: mu_i = w*c/N, sigma_i^2 = w*c*(N-c)/N^2, and a sigma_i of zero
\* is floored to a positive value far below 1/N
BelowLowerLimit(k, c) ==
    IF w * c * (N - c) > 0
    THEN /\ w * c - k * N >= 0
         /\ ZSquared[1] * w * c * (N - c)
                <= ZSquared[2] * (w * c - k * N) * (w * c - k * N)
    ELSE k * N < w * c

\* k >= mu_i + z * sigma_i
AboveUpperLimit(k, c) ==
    IF w * c * (N - c) > 0
    THEN /\ k * N - w * c >= 0
         /\ ZSquared[1] * w * c * (N - c)
                <= ZSquared[2] * (k * N - w * c) * (k * N - w * c)
    ELSE k * N > w * c

\* C14: for a bin with p_i > 0, L_i = floor(max(0, mu_i - z*sigma_i)) and
\* U_i = ceil(min(w, mu_i + z*sigma_i)), with z = 1.96 for confidence 0.95
\* and z = 2.576 for confidence 0.99; a bin with p_i = 0 has L_i = U_i = 0.
C14_EnvelopeFormula ==
    (status = "ok" /\ confidence \in {950, 990}) =>
        \A i \in 1..K :
            IF bin_counts[i] = 0
            THEN L[i] = 0 /\ U[i] = 0
            ELSE /\ L[i] >= 0
                 /\ L[i] = 0 \/ BelowLowerLimit(L[i], bin_counts[i])
                 /\ ~BelowLowerLimit(L[i] + 1, bin_counts[i])
                 /\ U[i] >= w \/ AboveUpperLimit(U[i], bin_counts[i])
                 /\ U[i] - 1 < w
                 /\ ~AboveUpperLimit(U[i] - 1, bin_counts[i])

\* confidence 0.95 and a bin seen in the baseline whose upper bound is
\* strictly inside the window
C14_Witness ==
    /\ status = "ok" /\ confidence = 950
    /\ \E i \in 1..K :
          bin_counts[i] > 0 /\ L[i] = 0 /\ U[i] >= 1 /\ U[i] < w


\* the window holds one value, repeated
AllSame(buf) == \A j \in 1..Len(buf) : buf[j] = buf[1]

\* C15: w updates with the same value x on a fresh or reset detector leave
\* current_counts[locate(x)] == w and every other count 0, and the w-th
\* update returns false unless L <= w <= U for that bin, when it returns true.
C15_SameValueFillsOneBin ==
    (status = "ok" /\ op = "update" /\ n = w /\ Len(buffer) = w
        /\ AllSame(buffer)) =>
        LET b == _bin_index(buffer[1]) + 1
        IN  /\ current_counts[b] = w
            /\ \A j \in 1..K : j # b => current_counts[j] = 0
            /\ ret = (IF L[b] <= w /\ w <= U[b] THEN "True" ELSE "False")

\* three equal observations, two bins, and the w-th update reports drift
C15_Witness ==
    /\ status = "ok" /\ op = "update" /\ n = w /\ w = 3 /\ K = 2
    /\ Len(buffer) = w /\ AllSame(buffer)
    /\ ret = "False"


\* C16: with window_size equal to the baseline size N, once every baseline
\* sample has been fed exactly once to the fresh detector every window count
\* lies inside its envelope and the N-th update returns true.
C16_NoFalseDriftOnBaseline ==
    (status = "ok" /\ w = N /\ op = "update" /\ n = N
        /\ sorted(buffer) = data) =>
        (ret = "True" /\ ~OutsideEnvelope)


\* index (0-based) at which the final chunk of the sorted baseline starts
FinalChunkStart == min_per_bin * ((N - 1) \div min_per_bin)

\* C17: the final chunk of the sorted baseline is merged into the preceding
\* bin (its size added to that count, that right edge moved to the data
\* maximum) exactly when it is not the first bin and holds fewer than
\* min_per_bin/2 samples; otherwise it is its own bin, whose right edge is
\* its last element.
C17_FinalChunkMergedOrEmitted ==
    status = "ok" =>
        LET start == FinalChunkStart
            size == N - start
        IN  IF start > 0 /\ 2 * size < min_per_bin
            THEN /\ K = start \div min_per_bin
                 /\ bin_counts[K] = min_per_bin + size
                 /\ edges[K + 1] = data[N]
            ELSE /\ K = start \div min_per_bin + 1
                 /\ bin_counts[K] = size
                 /\ edges[K + 1] = data[N]


\* C18: after n updates since construction or the last reset the window
\* holds the last min(n, w) observed values in arrival order; an update that
\* arrives at a full window drops the oldest value and then appends the new
\* one at the young end.
C18_WindowKeepsLastValues ==
    /\ [](status = "ok" => Len(buffer) = Min(n, w))
    /\ [][(status = "ok" /\ op' = "update") =>
             \E x \in XVals :
                 buffer' = (IF Len(buffer) = w THEN Tail(buffer) ELSE buffer)
                               \o <<x>>]_vars

\* one value has been evicted and the window holds different values at its
\* old and young ends
C18_Witness ==
    /\ status = "ok" /\ op = "update" /\ w >= 2 /\ n = w + 1
    /\ Len(buffer) = w /\ buffer[1] # buffer[w]


\* number of window values that the locator maps to bin i (0-based)
Located(i) == Cardinality({j \in 1..Len(buffer) : _bin_index(buffer[j]) = i})

\* C19: in every state of a constructed detector, after any interleaving of
\* update and reset, current_counts[i] is the number of values in the window
\* that _bin_index maps to i; every count is >= 0 and the counts sum to the
\* window length.
C19_CountsMirrorWindow ==
    status = "ok" =>
        /\ Len(current_counts) = K
        /\ \A i \in 0..(K - 1) :
               PyAt(current_counts, i) = Located(i) /\ PyAt(current_counts, i) >= 0
        /\ SumSeq(current_counts) = Len(buffer)

\* a full window that has already evicted a value and feeds two bins
C19_Witness ==
    /\ status = "ok" /\ K = 2 /\ n > w /\ Len(buffer) = w
    /\ current_counts[1] >= 1 /\ current_counts[2] >= 1


\* the bin (1-based) in which the builder counted the j-th sorted sample
RECURSIVE BuilderBin(_, _)
BuilderBin(j, i) ==
    IF i >= K \/ j <= bin_counts[i] THEN i
    ELSE BuilderBin(j - bin_counts[i], i + 1)

\* C20: every baseline sample that the builder counted in bin i is mapped to
\* bin i by _bin_index, so bin_counts[i] is the number of counted baseline
\* samples located in bin i.
C20_BuilderAndLocatorAgree ==
    status = "ok" =>
        /\ \A j \in 1..SumSeq(bin_counts) :
               _bin_index(data[j]) = BuilderBin(j, 1) - 1
        /\ \A i \in 1..K :
               bin_counts[i] =
                   Cardinality({j \in 1..SumSeq(bin_counts) :
                                    _bin_index(data[j]) = i - 1})

====
